---- MODULE Spec2Model ----
(***************************************************************************)
(* A model of cmd/bind.go of gomatcha.io/matcha: ParseTargets (the target  *)
(* set resolver) and Bind (the multi-architecture build pipeline: the      *)
(* concurrent iOS build fan-out and its unbuffered result channel, the     *)
(* lipo merge, the sequential Android builds, the AAR packaging, and the   *)
(* deferred removal of the working directory).                             *)
(*                                                                         *)
(* Two specifications share the module:                                    *)
(*   SpecParse  applies ParseTargets to every bounded input string;        *)
(*   Spec       runs Bind on a handful of inputs, one step at a time.      *)
(***************************************************************************)
EXTENDS Integers, Sequences, FiniteSets, TLC

VARIABLES
    \* ---- SpecParse: ParseTargets as a function of its argument
    parseIn,      \* the argument a, a sequence of string pieces
    parseOut,     \* ParseTargets(a)
    parseIn2,     \* a with one more token added
    parseOut2,    \* ParseTargets of that
    parsePc,      \* "init" | "parsed" | "added"
    \* ---- Spec: one run of Bind
    flags,        \* [BuildTargets, BuildWork, BuildBinary]
    args,         \* the source-package arguments
    pc,           \* Bind's position
    targets,      \* the map returned by ParseTargets (its key set)
    tmpCreated,   \* NewTmpDir succeeded
    wdExists,     \* the working directory exists on disk
    wdFiles,      \* files written under the working directory
    retErr,       \* the error Bind returned ("nil" for none, "" before)
    envs,         \* iOS: the architectures whose env was appended, in order
    spawned,      \* iOS: how many goroutines the dispatch loop has started
    wstate,       \* per build unit: "none" | "spawned" | "building" | "sending" | "done"
    wres,         \* per build unit: the err of its BuildResult ("" before it exists)
    invocations,  \* per build unit: number of GoBuild invocations
    consumed,     \* per build unit: number of times its result was received
    recvLog,      \* iOS: the results received from archChan, in arrival order
    archs,        \* iOS: the archPath values appended at line 260
    lipoCalls,    \* the argument lists handed to "xcrun lipo -create"
    androidArchs, \* Android: the architectures to build, in order
    aIdx,         \* Android: index of the loop at line 368
    aarCalls,     \* number of BuildAAR invocations
    outLog,       \* operations on the output location, in order
    cleanupBusy   \* build units inside GoBuild when the deferred RemoveAll ran

parseVars == <<parseIn, parseOut, parseIn2, parseOut2, parsePc>>

bindVars == <<flags, args, pc, targets, tmpCreated, wdExists, wdFiles, retErr,
              envs, spawned, wstate, wres, invocations, consumed, recvLog,
              archs, lipoCalls, androidArchs, aIdx, aarCalls, outLog,
              cleanupBusy>>

vars == <<parseVars, bindVars>>

(***************************************************************************)
(* Bounds.                                                                 *)
(***************************************************************************)
\* longest ParseTargets argument, in pieces
MaxLen == 4
\* most source-package arguments given to Bind
MaxArgs == 1

(***************************************************************************)
(* Strings.  A target specification is a sequence of pieces; its text is   *)
(* their concatenation.  " " is the only white space among the pieces, so  *)
(* strings.Fields splits exactly at the " " pieces.                        *)
(***************************************************************************)
Space == " "

Pieces == {"android", "ios", "/arm", "/arm64", "/386", "/amd64", "x", Space}

RECURSIVE SeqsUpTo(_, _)
SeqsUpTo(S, n) ==
    IF n = 0 THEN {<<>>}
    ELSE LET shorter == SeqsUpTo(S, n - 1)
         IN  shorter \cup {Append(s, p) : s \in {t \in shorter : Len(t) = n - 1}, p \in S}

\* strings.Fields: the maximal runs of non-space text, in order; no empty field.
RECURSIVE FieldsFrom(_, _, _, _)
FieldsFrom(s, i, cur, acc) ==
    IF i > Len(s)
    THEN IF cur = "" THEN acc ELSE Append(acc, cur)
    ELSE IF s[i] = Space
         THEN FieldsFrom(s, i + 1, "", IF cur = "" THEN acc ELSE Append(acc, cur))
         ELSE FieldsFrom(s, i + 1, cur \o s[i], acc)

Fields(s) == FieldsFrom(s, 1, "", <<>>)

(***************************************************************************)
(* ParseTargets.                                                           *)
(***************************************************************************)
AndroidQualified == {"android/arm", "android/arm64", "android/386", "android/amd64"}

IosQualified == {"ios/arm", "ios/arm64", "ios/386", "ios/amd64"}

\* a plausible slip: the default names one platform only
DefaultAndroidOnly == <<"android">>

\* line 24
DefaultTargetsSlice == <<"android", "ios">>

\* a plausible slip: the bare "ios" case leaves out one architecture
IosCaseWithout386 == {"ios", "ios/arm", "ios/arm64", "ios/amd64"}

\* lines 38-43
IosCase == {"ios", "ios/arm", "ios/arm64", "ios/386", "ios/amd64"}

\* lines 29-34
AndroidCase == {"android", "android/arm", "android/arm64", "android/386", "android/amd64"}

\* the switch of lines 28-47, applied to one token i
SwitchToken(tgts, i) ==
    CASE i = "android"          -> tgts \cup AndroidCase
      [] i \in AndroidQualified -> tgts \cup {"android", i}
      [] i = "ios"              -> tgts \cup IosCase
      [] i \in IosQualified     -> tgts \cup {"ios", i}
      [] OTHER                  -> tgts

RECURSIVE RangeLoop(_, _, _)
RangeLoop(slice, k, tgts) ==
    IF k > Len(slice) THEN tgts
    ELSE RangeLoop(slice, k + 1, SwitchToken(tgts, slice[k]))

ParseTargets(a) ==
    LET fields       == Fields(a)
        targetsSlice == IF Len(fields) = 0 THEN DefaultTargetsSlice ELSE fields
    IN  RangeLoop(targetsSlice, 1, {})

(***************************************************************************)
(* SpecParse: ParseTargets on every input of at most MaxLen pieces, then   *)
(* on that input with one unknown token added before or after it.          *)
(***************************************************************************)
ParseInputs == SeqsUpTo(Pieces, MaxLen)

KnownTokens == {"android", "ios"} \cup AndroidQualified \cup IosQualified

\* tokens that no case of the switch matches
UnknownTokens == {<<"x">>, <<"/arm">>, <<"ios", "x">>}

ParseIdle ==
    /\ parseIn = <<>>
    /\ parseOut = {}
    /\ parseIn2 = <<>>
    /\ parseOut2 = {}
    /\ parsePc = "off"

ParseCall ==
    /\ parsePc = "init"
    /\ parseOut' = ParseTargets(parseIn)
    /\ parsePc' = "parsed"
    /\ UNCHANGED <<parseIn, parseIn2, parseOut2>>

AddUnknownToken ==
    /\ parsePc = "parsed"
    /\ \E u \in UnknownTokens, front \in BOOLEAN :
          LET s2 == IF front THEN u \o <<Space>> \o parseIn
                             ELSE parseIn \o <<Space>> \o u
          IN  /\ parseIn2' = s2
              /\ parseOut2' = ParseTargets(s2)
    /\ parsePc' = "added"
    /\ UNCHANGED <<parseIn, parseOut>>

(***************************************************************************)
(* Bind.  Helpers that bind.go calls but does not define (NewTmpDir, Mkdir, *)
(* WriteFile, CopyFile, GoBuild, RunCmd, BuildAAR, ...) are external calls: *)
(* each either succeeds or returns an error, and Bind's own code decides   *)
(* what happens next.                                                      *)
(***************************************************************************)
Jobs == IosQualified \cup AndroidQualified

\* the order of the if-chains at lines 210-237 and 305-316
ArchOrder == <<"arm", "arm64", "386", "amd64">>

\* a plausible slip: the last if-block of the chain (amd64) is missing
RECURSIVE SelectArchsNoAmd64(_, _, _)
SelectArchsNoAmd64(platform, tgts, k) ==
    IF k > Len(ArchOrder) - 1 THEN <<>>
    ELSE (IF (platform \o "/" \o ArchOrder[k]) \in tgts THEN <<ArchOrder[k]>> ELSE <<>>)
         \o SelectArchsNoAmd64(platform, tgts, k + 1)

RECURSIVE SelectArchs(_, _, _)
SelectArchs(platform, tgts, k) ==
    IF k > Len(ArchOrder) THEN <<>>
    ELSE (IF (platform \o "/" \o ArchOrder[k]) \in tgts THEN <<ArchOrder[k]>> ELSE <<>>)
         \o SelectArchs(platform, tgts, k + 1)

IosJob(arch) == "ios/" \o arch

AndroidJob(arch) == "android/" \o arch

\* line 249: filepath.Join(tempdir, "matcha-"+arch+".a")
ArchivePath(arch) == "matcha-" \o arch \o ".a"

\* line 382: the shared object of one Android ABI
SharedObjectPath(arch) == "android/src/main/jniLibs/" \o arch \o "/libgojni.so"

BuildErr(job) == "GoBuild " \o job \o " failed"

EnvErr(job) == "env " \o job \o " failed"

PreflightErrs ==
    {"GoMobilePath failed", "toolchain partially installed, run `matcha init`",
     "GoVersion failed", "toolchain out of date, run `matcha init`",
     "Getwd failed", "ImportAll failed", "binding 'main' package is not supported",
     "PackageDir failed"}

\* the target specifications Bind is run on
BindInputs ==
    { <<>>,
      <<"ios">>,
      <<"android">>,
      <<"ios", "/arm", Space, "ios", "/arm64">>,
      <<"ios", "/amd64", Space, "android", "/386", Space, "android", "/arm">>,
      <<"x">> }

ArgLists == {[k \in 1..n |-> "pkg"] : n \in 0..MaxArgs}

BindIdle ==
    /\ flags = [BuildTargets |-> <<>>, BuildWork |-> FALSE, BuildBinary |-> FALSE]
    /\ args = <<>>
    /\ pc = "off"
    /\ targets = {}
    /\ tmpCreated = FALSE
    /\ wdExists = FALSE
    /\ wdFiles = {}
    /\ retErr = ""
    /\ envs = <<>>
    /\ spawned = 0
    /\ wstate = [j \in Jobs |-> "none"]
    /\ wres = [j \in Jobs |-> ""]
    /\ invocations = [j \in Jobs |-> 0]
    /\ consumed = [j \in Jobs |-> 0]
    /\ recvLog = <<>>
    /\ archs = <<>>
    /\ lipoCalls = <<>>
    /\ androidArchs = <<>>
    /\ aIdx = 1
    /\ aarCalls = 0
    /\ outLog = <<>>
    /\ cleanupBusy = {}

fixedVars == <<flags, args, targets, tmpCreated>>

iosVars == <<envs, spawned, recvLog, archs, lipoCalls>>

unitVars == <<wstate, wres, invocations, consumed>>

androidVars == <<androidArchs, aIdx, aarCalls>>

\* a plausible slip: the condition of line 70 inverted
DeferredInverted(keep, exists) == IF keep THEN FALSE ELSE exists

\* lines 70-72: what is left of the working directory once the deferred
\* RemoveAll (registered only when BuildWork is unset) has run
DeferredRemoveAll(keep, exists) == IF keep THEN exists ELSE FALSE

\* the deferred call of lines 70-72, run when Bind leaves by return or panic
RunDeferred ==
    /\ wdExists' = DeferredRemoveAll(flags.BuildWork, wdExists)
    /\ wdFiles' = IF DeferredRemoveAll(flags.BuildWork, wdExists) THEN wdFiles ELSE {}
    /\ cleanupBusy' = IF flags.BuildWork THEN {}
                      ELSE {j \in IosQualified : wstate[j] = "building"}

\* "return err" anywhere after line 72
Return(err) ==
    /\ pc' = "returned"
    /\ retErr' = err
    /\ RunDeferred

\* a run-time panic after line 72: the deferred call runs, Bind does not return
Panic(what) ==
    /\ pc' = "panicked"
    /\ retErr' = what
    /\ RunDeferred

Goto(to) ==
    /\ pc' = to
    /\ UNCHANGED <<retErr, wdExists, cleanupBusy>>

AfterIos(tgts) == IF "android" \in tgts THEN "android_prepare" ELSE "finish"

\* a plausible slip: the Android block entered first
AndroidBeforeIos(tgts) ==
    IF "android" \in tgts THEN "android_prepare"
    ELSE IF "ios" \in tgts THEN "ios_mkdir" ELSE "finish"

\* lines 143-147, 295-297: the iOS block comes first, the Android block after it
AfterPreflight(tgts) == IF "ios" \in tgts THEN "ios_mkdir" ELSE AfterIos(tgts)

\* lines 63-69, NewTmpDir succeeding
NewTmpDirOk ==
    /\ pc = "start"
    /\ targets' = ParseTargets(flags.BuildTargets)
    /\ tmpCreated' = TRUE
    /\ wdExists' = TRUE
    /\ pc' = "preflight"
    /\ UNCHANGED <<flags, args, wdFiles, retErr, cleanupBusy, iosVars, unitVars,
                   androidVars, outLog>>

\* lines 63-69, NewTmpDir failing: nothing is deferred yet
NewTmpDirFail ==
    /\ pc = "start"
    /\ targets' = ParseTargets(flags.BuildTargets)
    /\ pc' = "returned"
    /\ retErr' = "NewTmpDir failed"
    /\ UNCHANGED <<flags, args, tmpCreated, wdExists, wdFiles, cleanupBusy, iosVars,
                   unitVars, androidVars, outLog>>

\* lines 74-141: toolchain and package checks, all passing
PreflightOk ==
    /\ pc = "preflight"
    /\ Goto(AfterPreflight(targets))
    /\ UNCHANGED <<fixedVars, wdFiles, iosVars, unitVars, androidVars, outLog>>

\* lines 74-141: one of the checks failing
PreflightFail ==
    /\ pc = "preflight"
    /\ \E e \in PreflightErrs : Return(e)
    /\ UNCHANGED <<fixedVars, iosVars, unitVars, androidVars, outLog>>

\* line 403
ReturnNil ==
    /\ pc = "finish"
    /\ Return("nil")
    /\ UNCHANGED <<fixedVars, iosVars, unitVars, androidVars, outLog>>

(***************************************************************************)
(* Bind, the iOS block (lines 143-294).                                    *)
(***************************************************************************)
\* lines 148-158: Mkdir of the work output directories
IosMkdirOk ==
    /\ pc = "ios_mkdir"
    /\ Goto("ios_main")
    /\ wdFiles' = wdFiles \cup {"matcha-ios"}
    /\ UNCHANGED <<fixedVars, iosVars, unitVars, androidVars, outLog>>

IosMkdirFail ==
    /\ pc = "ios_mkdir"
    /\ Return("Mkdir failed")
    /\ UNCHANGED <<fixedVars, iosVars, unitVars, androidVars, outLog>>

\* lines 160-169: WriteFile runs the callback, which reads args[0]
IosWriteMainOk ==
    /\ pc = "ios_main"
    /\ Len(args) > 0
    /\ Goto(IF flags.BuildBinary THEN "ios_envs" ELSE "ios_support")
    /\ wdFiles' = wdFiles \cup {"src/iosbin/main.go"}
    /\ UNCHANGED <<fixedVars, iosVars, unitVars, androidVars, outLog>>

\* line 163 with no argument: args[0] is out of range
IosWriteMainPanic ==
    /\ pc = "ios_main"
    /\ Len(args) = 0
    /\ Panic("index out of range")
    /\ UNCHANGED <<fixedVars, iosVars, unitVars, androidVars, outLog>>

\* lines 167-169: WriteFile returning an error
IosWriteMainFail ==
    /\ pc = "ios_main"
    /\ Return("failed to create the binding package for iOS")
    /\ UNCHANGED <<fixedVars, iosVars, unitVars, androidVars, outLog>>

\* lines 171-206: the support files of the full bundle
IosSupportOk ==
    /\ pc = "ios_support"
    /\ Goto("ios_envs")
    /\ wdFiles' = wdFiles \cup {"matcha-ios/matchaobjc.h", "matcha-ios/matchago.h"}
    /\ UNCHANGED <<fixedVars, iosVars, unitVars, androidVars, outLog>>

IosSupportFail ==
    /\ pc = "ios_support"
    /\ Return("CopyFile failed")
    /\ UNCHANGED <<fixedVars, iosVars, unitVars, androidVars, outLog>>

\* lines 208-237: one env per requested iOS architecture, in ArchOrder
IosEnvsOk ==
    /\ pc = "ios_envs"
    /\ envs' = SelectArchs("ios", targets, 1)
    /\ Goto(IF Len(envs') = 0 THEN "ios_lipo" ELSE "ios_dispatch")
    /\ UNCHANGED <<fixedVars, wdFiles, spawned, recvLog, archs, lipoCalls, unitVars,
                   androidVars, outLog>>

IosEnvsFail ==
    /\ pc = "ios_envs"
    /\ \E k \in 1..Len(SelectArchs("ios", targets, 1)) :
          Return(EnvErr(IosJob(SelectArchs("ios", targets, 1)[k])))
    /\ UNCHANGED <<fixedVars, iosVars, unitVars, androidVars, outLog>>

\* a plausible slip: the closure reads the loop variable instead of taking it
\* as its argument, so every goroutine builds the last env
SpawnTargetCaptured(es, k) == IosJob(es[Len(es)])

\* lines 245-252: the k-th goroutine is handed the k-th env as its argument
SpawnTarget(es, k) == IosJob(es[k])

\* lines 245-253: one iteration of the dispatch loop starts one goroutine
IosSpawn ==
    /\ pc = "ios_dispatch"
    /\ spawned < Len(envs)
    /\ spawned' = spawned + 1
    /\ wstate' = [wstate EXCEPT ![SpawnTarget(envs, spawned + 1)] = "spawned"]
    /\ Goto(IF spawned' = Len(envs) THEN "ios_recv" ELSE "ios_dispatch")
    /\ UNCHANGED <<fixedVars, wdFiles, envs, recvLog, archs, lipoCalls, wres,
                   invocations, consumed, androidVars, outLog>>

\* line 250: the goroutine calls GoBuild
WorkerStart(j) ==
    /\ wstate[j] = "spawned"
    /\ wstate' = [wstate EXCEPT ![j] = "building"]
    /\ invocations' = [invocations EXCEPT ![j] = @ + 1]
    /\ UNCHANGED <<fixedVars, pc, retErr, wdExists, wdFiles, cleanupBusy, iosVars, wres,
                   consumed, androidVars, outLog>>

\* line 250: GoBuild returns nil, its archive written at line 249's path
WorkerFinishOk(j, arch) ==
    /\ j = IosJob(arch)
    /\ wstate[j] = "building"
    /\ wstate' = [wstate EXCEPT ![j] = "sending"]
    /\ wres' = [wres EXCEPT ![j] = "nil"]
    /\ wdExists' = TRUE
    /\ wdFiles' = wdFiles \cup {ArchivePath(arch)}
    /\ UNCHANGED <<fixedVars, pc, retErr, cleanupBusy, iosVars, invocations, consumed,
                   androidVars, outLog>>

\* line 250: GoBuild returns an error
WorkerFinishErr(j) ==
    /\ j \in IosQualified
    /\ wstate[j] = "building"
    /\ wstate' = [wstate EXCEPT ![j] = "sending"]
    /\ wres' = [wres EXCEPT ![j] = BuildErr(j)]
    /\ UNCHANGED <<fixedVars, pc, retErr, wdExists, wdFiles, cleanupBusy, iosVars,
                   invocations, consumed, androidVars, outLog>>

\* a plausible slip: the error of a result is never looked at
IgnoresErr(err) == FALSE

\* line 257
HasErr(err) == err # "nil"

\* a plausible slip: "return err" (the outer err, nil here) for "return arch.err"
ReturnsOuterErr(err) == "nil"

\* line 258
ReturnedErr(err) == err

\* a plausible slip: the loop bound one short
LoopEndsOneShort(n, total) == n >= total - 1

\* a plausible slip: one receive more than there are senders
LoopEndsOneMore(n, total) == n >= total + 1

\* line 255: the receive loop ends after len(envs) receives
LoopEnds(n, total) == n >= total

\* lines 255-261: one receive from the unbuffered archChan, which is the send of
\* line 251 of one goroutine, and what the loop body does with the value
IosReceive(j, arch) ==
    /\ pc = "ios_recv"
    /\ j = IosJob(arch)
    /\ wstate[j] = "sending"
    /\ wstate' = [wstate EXCEPT ![j] = "done"]
    /\ consumed' = [consumed EXCEPT ![j] = @ + 1]
    /\ LET r == [arch |-> arch, path |-> ArchivePath(arch), err |-> wres[j]]
       IN  /\ recvLog' = Append(recvLog, r)
           /\ IF HasErr(r.err)
              THEN /\ Return(ReturnedErr(r.err))
                   /\ UNCHANGED archs
              ELSE /\ archs' = Append(archs, r)
                   /\ Goto(IF LoopEnds(Len(recvLog'), Len(envs))
                           THEN "ios_lipo" ELSE "ios_recv")
                   /\ UNCHANGED wdFiles
    /\ UNCHANGED <<fixedVars, envs, spawned, lipoCalls, wres, invocations,
                   androidVars, outLog>>

\* lines 264-268: the arguments after "xcrun lipo -create"
LipoArgs(as) == [k \in 1..Len(as) |-> [arch |-> as[k].arch, path |-> as[k].path]]

\* a plausible slip: the bundle is copied over the old one, RemoveAll left out
AfterLipoNoRemove(binary) == IF binary THEN "ios_copyfile" ELSE "ios_copydir"

\* lines 279-293: the bundle mode removes the output directory first, the
\* binary mode goes straight to CopyFile
AfterLipo(binary) == IF binary THEN "ios_copyfile" ELSE "ios_removeold"

\* lines 263-271: lipo succeeding
IosLipoOk ==
    /\ pc = "ios_lipo"
    /\ lipoCalls' = Append(lipoCalls, LipoArgs(archs))
    /\ wdFiles' = wdFiles \cup {"matcha-ios/MatchaBridge.a"}
    /\ Goto(AfterLipo(flags.BuildBinary))
    /\ UNCHANGED <<fixedVars, envs, spawned, recvLog, archs, unitVars, androidVars,
                   outLog>>

\* lines 269-271: lipo failing
IosLipoFail ==
    /\ pc = "ios_lipo"
    /\ lipoCalls' = Append(lipoCalls, LipoArgs(archs))
    /\ Return("lipo failed")
    /\ UNCHANGED <<fixedVars, envs, spawned, recvLog, archs, unitVars, androidVars,
                   outLog>>

OutOp(op, what, ok) == [op |-> op, what |-> what, ok |-> ok]

\* lines 279-282: RemoveAll(outputDir)
IosRemoveOldOk ==
    /\ pc = "ios_removeold"
    /\ outLog' = Append(outLog, OutOp("RemoveAll", "outputDir", TRUE))
    /\ Goto("ios_copydir")
    /\ UNCHANGED <<fixedVars, wdFiles, iosVars, unitVars, androidVars>>

IosRemoveOldFail ==
    /\ pc = "ios_removeold"
    /\ outLog' = Append(outLog, OutOp("RemoveAll", "outputDir", FALSE))
    /\ Return("RemoveAll failed")
    /\ UNCHANGED <<fixedVars, iosVars, unitVars, androidVars>>

\* lines 284-287: CopyDir(outputDir, workOutputDir)
IosCopyDirOk ==
    /\ pc = "ios_copydir"
    /\ outLog' = Append(outLog, OutOp("CopyDir", "outputDir", TRUE))
    /\ Goto(AfterIos(targets))
    /\ UNCHANGED <<fixedVars, wdFiles, iosVars, unitVars, androidVars>>

IosCopyDirFail ==
    /\ pc = "ios_copydir"
    /\ outLog' = Append(outLog, OutOp("CopyDir", "outputDir", FALSE))
    /\ Return("CopyDir failed")
    /\ UNCHANGED <<fixedVars, iosVars, unitVars, androidVars>>

\* lines 289-292: CopyFile of the fat binary
IosCopyFileOk ==
    /\ pc = "ios_copyfile"
    /\ outLog' = Append(outLog, OutOp("CopyFile", "outputDir/ios/MatchaBridge.a", TRUE))
    /\ Goto(AfterIos(targets))
    /\ UNCHANGED <<fixedVars, wdFiles, iosVars, unitVars, androidVars>>

IosCopyFileFail ==
    /\ pc = "ios_copyfile"
    /\ outLog' = Append(outLog, OutOp("CopyFile", "outputDir/ios/MatchaBridge.a", FALSE))
    /\ Return("CopyFile failed")
    /\ UNCHANGED <<fixedVars, iosVars, unitVars, androidVars>>

(***************************************************************************)
(* Bind, the Android block (lines 295-402).                                *)
(***************************************************************************)
\* lines 296-329: the architecture list and GoMobilePath
AndroidPrepareOk ==
    /\ pc = "android_prepare"
    /\ androidArchs' = SelectArchs("android", targets, 1)
    /\ Goto("android_main")
    /\ UNCHANGED <<fixedVars, wdFiles, iosVars, unitVars, aIdx, aarCalls, outLog>>

AndroidPrepareFail ==
    /\ pc = "android_prepare"
    /\ androidArchs' = SelectArchs("android", targets, 1)
    /\ Return("GoMobilePath failed")
    /\ UNCHANGED <<fixedVars, iosVars, unitVars, aIdx, aarCalls, outLog>>

\* lines 331-338: WriteFile runs the callback, which reads args[0]
AndroidWriteMainOk ==
    /\ pc = "android_main"
    /\ Len(args) > 0
    /\ Goto("android_skeleton")
    /\ wdFiles' = wdFiles \cup {"androidlib/main.go"}
    /\ UNCHANGED <<fixedVars, iosVars, unitVars, androidVars, outLog>>

\* line 332 with no argument: args[0] is out of range
AndroidWriteMainPanic ==
    /\ pc = "android_main"
    /\ Len(args) = 0
    /\ Panic("index out of range")
    /\ UNCHANGED <<fixedVars, iosVars, unitVars, androidVars, outLog>>

AndroidWriteMainFail ==
    /\ pc = "android_main"
    /\ Return("failed to create the main package for android")
    /\ UNCHANGED <<fixedVars, iosVars, unitVars, androidVars, outLog>>

\* lines 340-365: the Java sources and the work output directories
AndroidSkeletonOk ==
    /\ pc = "android_skeleton"
    /\ Goto("android_loop")
    /\ wdFiles' = wdFiles \cup {"android/src/main/java", "matcha-android/MatchaBridge"}
    /\ UNCHANGED <<fixedVars, iosVars, unitVars, androidVars, outLog>>

AndroidSkeletonFail ==
    /\ pc = "android_skeleton"
    /\ \E e \in {"Mkdir failed", "CopyFile failed"} : Return(e)
    /\ UNCHANGED <<fixedVars, iosVars, unitVars, androidVars, outLog>>

\* line 368: the range loop is over
AndroidLoopExit ==
    /\ pc = "android_loop"
    /\ aIdx > Len(androidArchs)
    /\ Goto("android_aar")
    /\ UNCHANGED <<fixedVars, wdFiles, iosVars, unitVars, androidVars, outLog>>

\* lines 369-376: GetAndroidEnv succeeds and GoBuild is called, in this goroutine
AndroidBuildStart ==
    /\ pc = "android_loop"
    /\ aIdx <= Len(androidArchs)
    /\ wstate' = [wstate EXCEPT ![AndroidJob(androidArchs[aIdx])] = "building"]
    /\ invocations' = [invocations EXCEPT ![AndroidJob(androidArchs[aIdx])] = @ + 1]
    /\ Goto("android_building")
    /\ UNCHANGED <<fixedVars, wdFiles, iosVars, wres, consumed, androidVars, outLog>>

\* lines 369-372: GetAndroidEnv failing
AndroidEnvFail ==
    /\ pc = "android_loop"
    /\ aIdx <= Len(androidArchs)
    /\ Return(EnvErr(AndroidJob(androidArchs[aIdx])))
    /\ UNCHANGED <<fixedVars, iosVars, unitVars, androidVars, outLog>>

\* lines 376-387: GoBuild returns nil; next iteration
AndroidBuildOk ==
    /\ pc = "android_building"
    /\ LET arch == androidArchs[aIdx]
           j    == AndroidJob(arch)
       IN  /\ wstate' = [wstate EXCEPT ![j] = "done"]
           /\ wres' = [wres EXCEPT ![j] = "nil"]
           /\ consumed' = [consumed EXCEPT ![j] = @ + 1]
           /\ wdFiles' = wdFiles \cup {SharedObjectPath(arch)}
    /\ aIdx' = aIdx + 1
    /\ Goto("android_loop")
    /\ UNCHANGED <<fixedVars, iosVars, invocations, androidArchs, aarCalls, outLog>>

\* lines 384-386: GoBuild returns an error
AndroidBuildErr ==
    /\ pc = "android_building"
    /\ LET j == AndroidJob(androidArchs[aIdx])
       IN  /\ wstate' = [wstate EXCEPT ![j] = "done"]
           /\ wres' = [wres EXCEPT ![j] = BuildErr(j)]
           /\ consumed' = [consumed EXCEPT ![j] = @ + 1]
           /\ IF HasErr(BuildErr(j))
              THEN Return(ReturnedErr(BuildErr(j)))
              ELSE /\ Goto("android_loop")
                   /\ UNCHANGED wdFiles
    /\ aIdx' = aIdx + 1
    /\ UNCHANGED <<fixedVars, iosVars, invocations, androidArchs, aarCalls, outLog>>

\* lines 388-390: BuildAAR
AndroidAAROk ==
    /\ pc = "android_aar"
    /\ aarCalls' = aarCalls + 1
    /\ wdFiles' = wdFiles \cup {"matcha-android/MatchaBridge/matchabridge.aar"}
    /\ Goto("android_copy")
    /\ UNCHANGED <<fixedVars, iosVars, unitVars, androidArchs, aIdx, outLog>>

AndroidAARFail ==
    /\ pc = "android_aar"
    /\ aarCalls' = aarCalls + 1
    /\ Return("BuildAAR failed")
    /\ UNCHANGED <<fixedVars, iosVars, unitVars, androidArchs, aIdx, outLog>>

\* lines 392-401: CopyFile of the archive
AndroidCopyOk ==
    /\ pc = "android_copy"
    /\ outLog' = Append(outLog, OutOp("CopyFile", "outputDir/android/matchabridge.aar", TRUE))
    /\ Goto("finish")
    /\ UNCHANGED <<fixedVars, wdFiles, iosVars, unitVars, androidVars>>

AndroidCopyFail ==
    /\ pc = "android_copy"
    /\ outLog' = Append(outLog, OutOp("CopyFile", "outputDir/android/matchabridge.aar", FALSE))
    /\ Return("CopyFile failed")
    /\ UNCHANGED <<fixedVars, iosVars, unitVars, androidVars>>

(***************************************************************************)
(* The specifications.                                                     *)
(***************************************************************************)
Init ==
    /\ ParseIdle
    /\ flags \in [BuildTargets : BindInputs, BuildWork : BOOLEAN, BuildBinary : BOOLEAN]
    /\ args \in ArgLists
    /\ pc = "start"
    /\ targets = {}
    /\ tmpCreated = FALSE
    /\ wdExists = FALSE
    /\ wdFiles = {}
    /\ retErr = ""
    /\ envs = <<>>
    /\ spawned = 0
    /\ wstate = [j \in Jobs |-> "none"]
    /\ wres = [j \in Jobs |-> ""]
    /\ invocations = [j \in Jobs |-> 0]
    /\ consumed = [j \in Jobs |-> 0]
    /\ recvLog = <<>>
    /\ archs = <<>>
    /\ lipoCalls = <<>>
    /\ androidArchs = <<>>
    /\ aIdx = 1
    /\ aarCalls = 0
    /\ outLog = <<>>
    /\ cleanupBusy = {}

ArchNames == {ArchOrder[k] : k \in 1..Len(ArchOrder)}

Next ==
    \/ (NewTmpDirOk /\ UNCHANGED parseVars)
    \/ (NewTmpDirFail /\ UNCHANGED parseVars)
    \/ (PreflightOk /\ UNCHANGED parseVars)
    \/ (PreflightFail /\ UNCHANGED parseVars)
    \/ (IosMkdirOk /\ UNCHANGED parseVars)
    \/ (IosMkdirFail /\ UNCHANGED parseVars)
    \/ (IosWriteMainOk /\ UNCHANGED parseVars)
    \/ (IosWriteMainPanic /\ UNCHANGED parseVars)
    \/ (IosWriteMainFail /\ UNCHANGED parseVars)
    \/ (IosSupportOk /\ UNCHANGED parseVars)
    \/ (IosSupportFail /\ UNCHANGED parseVars)
    \/ (IosEnvsOk /\ UNCHANGED parseVars)
    \/ (IosEnvsFail /\ UNCHANGED parseVars)
    \/ (IosSpawn /\ UNCHANGED parseVars)
    \/ (\E j \in IosQualified : WorkerStart(j) /\ UNCHANGED parseVars)
    \/ (\E a \in ArchNames : WorkerFinishOk(IosJob(a), a) /\ UNCHANGED parseVars)
    \/ (\E j \in IosQualified : WorkerFinishErr(j) /\ UNCHANGED parseVars)
    \/ (\E a \in ArchNames : IosReceive(IosJob(a), a) /\ UNCHANGED parseVars)
    \/ (IosLipoOk /\ UNCHANGED parseVars)
    \/ (IosLipoFail /\ UNCHANGED parseVars)
    \/ (IosRemoveOldOk /\ UNCHANGED parseVars)
    \/ (IosRemoveOldFail /\ UNCHANGED parseVars)
    \/ (IosCopyDirOk /\ UNCHANGED parseVars)
    \/ (IosCopyDirFail /\ UNCHANGED parseVars)
    \/ (IosCopyFileOk /\ UNCHANGED parseVars)
    \/ (IosCopyFileFail /\ UNCHANGED parseVars)
    \/ (AndroidPrepareOk /\ UNCHANGED parseVars)
    \/ (AndroidPrepareFail /\ UNCHANGED parseVars)
    \/ (AndroidWriteMainOk /\ UNCHANGED parseVars)
    \/ (AndroidWriteMainPanic /\ UNCHANGED parseVars)
    \/ (AndroidWriteMainFail /\ UNCHANGED parseVars)
    \/ (AndroidSkeletonOk /\ UNCHANGED parseVars)
    \/ (AndroidSkeletonFail /\ UNCHANGED parseVars)
    \/ (AndroidLoopExit /\ UNCHANGED parseVars)
    \/ (AndroidBuildStart /\ UNCHANGED parseVars)
    \/ (AndroidEnvFail /\ UNCHANGED parseVars)
    \/ (AndroidBuildOk /\ UNCHANGED parseVars)
    \/ (AndroidBuildErr /\ UNCHANGED parseVars)
    \/ (AndroidAAROk /\ UNCHANGED parseVars)
    \/ (AndroidAARFail /\ UNCHANGED parseVars)
    \/ (AndroidCopyOk /\ UNCHANGED parseVars)
    \/ (AndroidCopyFail /\ UNCHANGED parseVars)
    \/ (ReturnNil /\ UNCHANGED parseVars)

Spec == Init /\ [][Next]_vars

\* the steps of the goroutine that runs Bind
CoordinatorStep ==
    /\ UNCHANGED parseVars
    /\ \/ NewTmpDirOk \/ NewTmpDirFail \/ PreflightOk \/ PreflightFail
       \/ IosMkdirOk \/ IosMkdirFail
       \/ IosWriteMainOk \/ IosWriteMainPanic \/ IosWriteMainFail
       \/ IosSupportOk \/ IosSupportFail \/ IosEnvsOk \/ IosEnvsFail \/ IosSpawn
       \/ \E a \in ArchNames : IosReceive(IosJob(a), a)
       \/ IosLipoOk \/ IosLipoFail \/ IosRemoveOldOk \/ IosRemoveOldFail
       \/ IosCopyDirOk \/ IosCopyDirFail \/ IosCopyFileOk \/ IosCopyFileFail
       \/ AndroidPrepareOk \/ AndroidPrepareFail
       \/ AndroidWriteMainOk \/ AndroidWriteMainPanic \/ AndroidWriteMainFail
       \/ AndroidSkeletonOk \/ AndroidSkeletonFail
       \/ AndroidLoopExit \/ AndroidBuildStart \/ AndroidEnvFail
       \/ AndroidBuildOk \/ AndroidBuildErr
       \/ AndroidAAROk \/ AndroidAARFail \/ AndroidCopyOk \/ AndroidCopyFail
       \/ ReturnNil

\* line 250 returning, either way, in the goroutine of job j
WorkerFinish(j) ==
    /\ UNCHANGED parseVars
    /\ \/ \E a \in ArchNames : WorkerFinishOk(j, a)
       \/ WorkerFinishErr(j)

\* The Go scheduler runs every goroutine that can run, and every external call
\* (the GoBuild of line 250 included) returns: the runs of SpecFair are the
\* runs of Bind in which no external call hangs.
Fairness ==
    /\ WF_vars(CoordinatorStep)
    /\ \A j \in IosQualified : WF_vars(WorkerStart(j) /\ UNCHANGED parseVars)
    /\ \A j \in IosQualified : WF_vars(WorkerFinish(j))

SpecFair == Spec /\ Fairness

InitParse ==
    /\ BindIdle
    /\ parseIn \in ParseInputs
    /\ parseOut = {}
    /\ parseIn2 = <<>>
    /\ parseOut2 = {}
    /\ parsePc = "init"

NextParse ==
    \/ (ParseCall /\ UNCHANGED bindVars)
    \/ (AddUnknownToken /\ UNCHANGED bindVars)

SpecParse == InitParse /\ [][NextParse]_vars

(***************************************************************************)
(* Properties of ParseTargets, checked under SpecParse.                    *)
(***************************************************************************)
Parsed == parsePc \in {"parsed", "added"}

AllTargets == {"android", "ios"} \cup AndroidQualified \cup IosQualified

OnlySpaces(s) == \A k \in 1..Len(s) : s[k] = Space

\* C5: ParseTargets of the empty or white-space-only specification is the set
\* ParseTargets("android ios") returns: both platform markers and the four
\* architectures of each platform.
C5_EmptyIsAndroidIos ==
    (Parsed /\ OnlySpaces(parseIn)) =>
        /\ parseOut = ParseTargets(<<"android", Space, "ios">>)
        /\ parseOut = AllTargets

C5_Witness ==
    /\ parsePc = "parsed"
    /\ parseIn = <<Space, Space>>
    /\ Cardinality(parseOut) = 10

TokenSet(s) == {Fields(s)[k] : k \in 1..Len(Fields(s))}

\* a non-empty sequence of bare platform tokens and platform/arch tokens
WellFormed(s) == TokenSet(s) # {} /\ TokenSet(s) \subseteq KnownTokens

\* the named architectures, and every architecture of each bare platform named
ExpectedArchs(s) ==
    (TokenSet(s) \cap (AndroidQualified \cup IosQualified))
    \cup {p \o "/" \o a : p \in TokenSet(s) \cap {"android", "ios"}, a \in ArchNames}

\* C6: for a non-empty well-formed specification the architectures of the
\* returned set are exactly the named ones plus all architectures of every bare
\* platform token; nothing else, and (the result being a set of keys) nothing
\* twice.
C6_ExactArchitectures ==
    (Parsed /\ WellFormed(parseIn)) =>
        parseOut \ {"android", "ios"} = ExpectedArchs(parseIn)

C6_Witness ==
    /\ parsePc = "parsed"
    /\ parseIn = <<"ios", "/arm", Space, "ios">>
    /\ parseOut = IosCase

\* C7: the set ParseTargets returns is never empty, whatever the input.
C7_NeverEmpty == Parsed => parseOut # {}

\* C9: adding an unknown token to a specification, the empty one included,
\* does not change what ParseTargets returns.
C9_UnknownTokenIgnored == (parsePc = "added") => parseOut2 = parseOut

(***************************************************************************)
(* Properties of Bind, checked under Spec.                                 *)
(***************************************************************************)
Exited == {"returned", "panicked"}

PlatformJobs(p) == IF p = "ios" THEN IosQualified ELSE AndroidQualified

FailedJobs(p) == {j \in PlatformJobs(p) : wres[j] \notin {"", "nil"}}

OutOpsAt(places) == {k \in 1..Len(outLog) : outLog[k].what \in places}

IosPlaces == {"outputDir", "outputDir/ios/MatchaBridge.a"}

AndroidPlaces == {"outputDir/android/matchabridge.aar"}

\* C1: whenever Bind leaves, by whatever path, after the working directory
\* was created, the directory is gone if BuildWork is unset and still there
\* if BuildWork is set.
C1_WorkDirAtExit ==
    [][(pc \notin Exited /\ pc' \in Exited /\ tmpCreated')
          => (wdExists' = flags.BuildWork)]_vars

C1_Witness ==
    /\ pc = "returned"
    /\ retErr = BuildErr("ios/arm64")
    /\ tmpCreated
    /\ ~flags.BuildWork
    /\ ~wdExists

\* C2: once a build job of a platform has failed, the merge tool (iOS) or the
\* archive packager (Android) is never invoked, nothing is done at that
\* platform's output location, and when Bind has returned its error is the
\* error of a failed job of that platform.
C2_FailedJobNoBundle ==
    /\ FailedJobs("ios") # {} =>
          /\ lipoCalls = <<>>
          /\ OutOpsAt(IosPlaces) = {}
          /\ pc \in Exited => retErr \in {wres[j] : j \in FailedJobs("ios")}
    /\ FailedJobs("android") # {} =>
          /\ aarCalls = 0
          /\ OutOpsAt(AndroidPlaces) = {}
          /\ pc \in Exited => retErr \in {wres[j] : j \in FailedJobs("android")}

C2_Witness ==
    /\ pc = "returned"
    /\ wres["ios/arm"] = "nil"
    /\ consumed["ios/arm"] = 1
    /\ wres["ios/arm64"] = BuildErr("ios/arm64")
    /\ retErr = BuildErr("ios/arm64")
    /\ lipoCalls = <<>>

\* C3 as claimed: every dispatched unit builds once and its result is received
\* exactly once; when Bind has left, no produced result is left undelivered.
C3_EveryResultConsumed ==
    \A j \in Jobs :
        /\ invocations[j] <= 1
        /\ consumed[j] <= 1
        /\ (pc \in Exited /\ wres[j] # "") => consumed[j] = 1

\* C3 as amended: every dispatched unit calls the compiler at most once and
\* its result is received at most once, after it was produced; a result still
\* waiting to be sent has not been received; and when Bind returns nil every
\* requested architecture was built exactly once, without error, and its
\* result received exactly once.
C3_AtMostOnceAndOnceOnSuccess ==
    \A j \in Jobs :
        /\ invocations[j] <= 1
        /\ consumed[j] <= 1
        /\ consumed[j] = 1 => (invocations[j] = 1 /\ wres[j] # "")
        /\ wstate[j] = "sending" => consumed[j] = 0
        /\ (pc = "returned" /\ retErr = "nil" /\ j \in targets) =>
              (invocations[j] = 1 /\ consumed[j] = 1 /\ wres[j] = "nil")

C3_Witness ==
    /\ pc = "returned"
    /\ retErr = BuildErr("ios/arm")
    /\ wstate["ios/arm64"] = "sending"
    /\ wres["ios/arm64"] = "nil"
    /\ consumed["ios/arm64"] = 0
    /\ invocations["ios/arm64"] = 1

IosRequested == {a \in ArchNames : IosJob(a) \in targets}

IosPlaced ==
    \E k \in OutOpsAt(IosPlaces) :
        outLog[k].op \in {"CopyDir", "CopyFile"} /\ outLog[k].ok

\* C4: lipo is invoked at most once, and when it is, with exactly one
\* (architecture, path) argument per requested iOS architecture, none missing
\* and none repeated, in whatever order the results arrived; the output is put
\* in place only after that invocation, and a run that targets iOS and returns
\* nil has invoked lipo once and put the output in place.
C4_MergeOncePerArch ==
    /\ Len(lipoCalls) <= 1
    /\ \A c \in 1..Len(lipoCalls) :
          /\ {lipoCalls[c][k].arch : k \in 1..Len(lipoCalls[c])} = IosRequested
          /\ Len(lipoCalls[c]) = Cardinality(IosRequested)
          /\ \A k \in 1..Len(lipoCalls[c]) :
                lipoCalls[c][k].path = ArchivePath(lipoCalls[c][k].arch)
    /\ OutOpsAt(IosPlaces) # {} => Len(lipoCalls) = 1
    /\ (pc = "returned" /\ retErr = "nil" /\ "ios" \in targets) =>
          (Len(lipoCalls) = 1 /\ IosPlaced)

C4_Witness ==
    /\ pc = "returned"
    /\ retErr = "nil"
    /\ Len(lipoCalls) = 1
    /\ Len(lipoCalls[1]) = 2
    /\ lipoCalls[1][1].arch = "arm64"
    /\ lipoCalls[1][2].arch = "arm"
    /\ IosPlaced

\* C8: with no source-package argument and a platform targeted, Bind does not
\* crash: it goes on to write the entry point and to dispatch the builds.
C8_ZeroArgsNoCrash ==
    (Len(args) = 0 /\ targets # {}) => pc # "panicked"

\* C10: an erroneous result is the last one the iOS coordinator receives: on
\* receiving it Bind returns, with that error, and receives nothing more.
C10_ReturnsOnFirstError ==
    \A k \in 1..Len(recvLog) :
        recvLog[k].err # "nil" =>
            /\ k = Len(recvLog)
            /\ pc = "returned"
            /\ retErr = recvLog[k].err

C10_Witness ==
    /\ pc = "returned"
    /\ Len(recvLog) = 2
    /\ recvLog[1].err = "nil"
    /\ retErr = recvLog[2].err
    /\ retErr = BuildErr("ios/arm")
    /\ wstate["ios/386"] = "building"
    /\ wstate["ios/amd64"] = "spawned"

\* C11: after the coordinator has returned on the first error, a sibling unit
\* whose compiler invocation has returned, and which is therefore trying to
\* send its result, eventually finishes: none stays blocked on the send.
C11_SiblingsFinish ==
    \A j \in IosQualified :
        (pc = "returned" /\ wstate[j] = "sending") ~> (wstate[j] = "done")

\* the results of the requested architectures, had they arrived in the order
\* in which their goroutines were started
InDispatchOrder(es) ==
    [k \in 1..Len(es) |-> [arch |-> es[k], path |-> ArchivePath(es[k]), err |-> "nil"]]

\* C12: the (architecture, path) arguments handed to lipo are the same
\* sequence for every arrival order of the results; arrival in dispatch order
\* being one of them, they are the arguments of that arrival order.
C12_MergeArgsOrderFixed ==
    \A c \in 1..Len(lipoCalls) : lipoCalls[c] = LipoArgs(InDispatchOrder(envs))

\* both orders of the same two architectures do reach lipo
C12_DispatchOrderReached ==
    /\ Len(lipoCalls) = 1
    /\ envs = <<"arm", "arm64">>
    /\ lipoCalls[1] = LipoArgs(InDispatchOrder(envs))

Requested(p) == PlatformJobs(p) \cap targets

\* job j, not started yet, can be started without any other job returning: its
\* goroutine is ready to call GoBuild, or the loop that starts it is ready to
IosCanStart(j) ==
    \/ ENABLED (WorkerStart(j) /\ UNCHANGED parseVars)
    \/ ENABLED (IosSpawn /\ UNCHANGED parseVars)

AndroidCanStart == ENABLED (AndroidBuildStart /\ UNCHANGED parseVars)

\* C13 as claimed: on either platform, while one job is inside the compiler,
\* every requested job of the same platform that has not started can start:
\* no start waits for another job's result.
C13_AllJobsConcurrent ==
    /\ \A j, k \in Requested("ios") :
          (j # k /\ wstate[k] = "building" /\ invocations[j] = 0) => IosCanStart(j)
    /\ \A j, k \in Requested("android") :
          (j # k /\ wstate[k] = "building" /\ invocations[j] = 0) => AndroidCanStart

\* C13 as amended: the iOS jobs are dispatched concurrently (while one is inside
\* the compiler every other one that has not started can start); the Android
\* jobs run one at a time, in the order arm, arm64, 386, amd64, each started
\* only after every earlier one has returned without error.
C13_IosConcurrentAndroidSequential ==
    /\ \A j, k \in Requested("ios") :
          (j # k /\ wstate[k] = "building" /\ invocations[j] = 0) => IosCanStart(j)
    /\ \A j, k \in AndroidQualified :
          (wstate[j] = "building" /\ wstate[k] = "building") => j = k
    /\ \A i \in 1..Len(androidArchs) :
          invocations[AndroidJob(androidArchs[i])] >= 1 =>
              \A h \in 1..(i - 1) :
                  /\ wstate[AndroidJob(androidArchs[h])] = "done"
                  /\ wres[AndroidJob(androidArchs[h])] = "nil"

C13_Witness ==
    /\ \A j \in IosQualified : wstate[j] = "building"
    /\ recvLog = <<>>

Dispatched(p) == {j \in PlatformJobs(p) : wstate[j] # "none"}

Writes == {k \in 1..Len(outLog) : outLog[k].op \in {"CopyDir", "CopyFile"}}

Removals == {k \in 1..Len(outLog) : outLog[k].op = "RemoveAll"}

\* C15 as claimed: on either platform and in either mode, before the output
\* is written at the output location what was there has been removed (the
\* removal of the output directory counting for every place under it).
C15_OldOutputRemovedFirst ==
    \A k \in Writes : \E h \in Removals : h < k /\ outLog[h].ok

\* C15 as amended: only the full-bundle iOS step removes anything: its CopyDir
\* directly follows a successful RemoveAll of the output directory, the first
\* operation at the output location.  The binary-only iOS step and the Android
\* step write with CopyFile and remove nothing.
C15_OnlyBundleModeRemoves ==
    /\ \A k \in Writes :
          outLog[k].op = "CopyDir" =>
              (k > 1 /\ outLog[k - 1] = OutOp("RemoveAll", "outputDir", TRUE))
    /\ \A k \in Removals :
          /\ k = 1
          /\ outLog[k].what = "outputDir"
          /\ ~flags.BuildBinary
          /\ "ios" \in targets
    /\ \A k \in Writes :
          outLog[k].op = "CopyFile" =>
              (k = 1 \/ outLog[k - 1].op # "RemoveAll")

C15_Witness ==
    /\ pc = "returned"
    /\ retErr = "nil"
    /\ flags.BuildBinary
    /\ Len(outLog) = 2
    /\ outLog[1] = OutOp("CopyFile", "outputDir/ios/MatchaBridge.a", TRUE)
    /\ outLog[2] = OutOp("CopyFile", "outputDir/android/matchabridge.aar", TRUE)

InCompiler == {j \in Jobs : wstate[j] = "building"}

\* C16 as claimed: a compiler invocation that never returns keeps Bind from
\* returning whatever the sibling jobs do; an invocation leaves "building"
\* only by returning, so Bind has never returned while one is still running.
C16_HungBuildHangsRun == pc = "returned" => InCompiler = {}

\* C16 as amended: Bind returns while a compiler invocation is still running
\* only on the first-error path of the iOS receive loop: the running unit is
\* an iOS one and Bind's error is that of a failed sibling whose result was
\* received.  An Android invocation runs inside the coordinator itself.
C16_HungBuildHangsUnlessSiblingFails ==
    /\ pc = "returned" =>
          \A j \in InCompiler :
              /\ j \in IosQualified
              /\ \E k \in IosQualified \ {j} :
                    /\ consumed[k] = 1
                    /\ wres[k] = BuildErr(k)
                    /\ retErr = wres[k]
    /\ \A j \in InCompiler \cap AndroidQualified : pc = "android_building"

C16_Witness ==
    /\ pc = "returned"
    /\ retErr = BuildErr("ios/arm")
    /\ wstate["ios/arm64"] = "building"

AndroidPcs ==
    {"android_prepare", "android_main", "android_skeleton", "android_loop",
     "android_building", "android_aar", "android_copy"}

AndroidReached ==
    \/ pc \in AndroidPcs
    \/ androidArchs # <<>>
    \/ \E j \in AndroidQualified : wstate[j] # "none" \/ invocations[j] > 0
    \/ aarCalls > 0
    \/ OutOpsAt(AndroidPlaces) # {}

IosComplete ==
    /\ \A j \in Requested("ios") :
          wstate[j] = "done" /\ consumed[j] = 1 /\ wres[j] = "nil"
    /\ Len(recvLog) = Cardinality(Requested("ios"))
    /\ Len(lipoCalls) = 1
    /\ \A k \in OutOpsAt(IosPlaces) : outLog[k].ok
    /\ IosPlaced

\* C17: with both platforms targeted the Android block is entered only after
\* every iOS result has been received without error, lipo has run and the iOS
\* output is in place; and a run that ends with the iOS part incomplete ends
\* with an error and without any Android step.
C17_IosThenAndroid ==
    ("ios" \in targets /\ "android" \in targets) =>
        /\ AndroidReached => IosComplete
        /\ (pc = "returned" /\ ~IosComplete) =>
              (retErr # "nil" /\ ~AndroidReached)

C17_Witness ==
    /\ "ios" \in targets
    /\ pc = "android_building"
    /\ \E j \in Requested("android") : wstate[j] = "building"
    /\ IosComplete

\* C18: once Bind has returned with the keep flag unset, the working
\* directory does not exist and holds no file, and when the deferred RemoveAll
\* ran no build unit was inside a compiler invocation writing into it.
C18_NoWriteAfterCleanup ==
    (pc = "returned" /\ tmpCreated /\ ~flags.BuildWork) =>
        /\ ~wdExists
        /\ wdFiles = {}
        /\ cleanupBusy = {}

C18_RaceReached ==
    /\ pc = "returned"
    /\ ~flags.BuildWork
    /\ retErr = BuildErr("ios/arm")
    /\ cleanupBusy = {"ios/arm64"}
    /\ wdExists
    /\ ArchivePath("arm64") \in wdFiles

OutputPlaces(p) == IF p = "ios" THEN IosPlaces ELSE AndroidPlaces

\* an operation on the output directory reaches every place under it
Covers(what) ==
    IF what = "outputDir" THEN IosPlaces \cup AndroidPlaces ELSE {what}

PlatformFailed(p) ==
    \/ FailedJobs(p) # {}
    \/ retErr = (IF p = "ios" THEN "lipo failed" ELSE "BuildAAR failed")

OutputTouched(p) ==
    \E k \in 1..Len(outLog) : Covers(outLog[k].what) \cap OutputPlaces(p) # {}

\* C19: when a build job of a platform, or its lipo or BuildAAR step, has
\* failed, nothing in the run has removed or written that platform's output
\* location.
C19_OutputUntouchedOnFailure ==
    \A p \in {"ios", "android"} : PlatformFailed(p) => ~OutputTouched(p)

C19_AndroidOutputRemoved ==
    /\ pc = "returned"
    /\ ~flags.BuildBinary
    /\ FailedJobs("android") # {}
    /\ outLog = <<OutOp("RemoveAll", "outputDir", TRUE),
                  OutOp("CopyDir", "outputDir", TRUE)>>

StillToSend == {j \in IosQualified : wstate[j] \in {"spawned", "building", "sending"}}

\* C20: when every external call terminates, every run of Bind ends (with at
\* least one argument, by returning), the receive loop is always left, and
\* while the coordinator waits for a result some build unit has yet to send
\* one.
C20_BindTerminates ==
    /\ <>(pc \in Exited)
    /\ (Len(args) > 0) => <>(pc = "returned")
    /\ (pc = "ios_recv") ~> (pc \in {"ios_lipo", "returned"})
    /\ [](pc = "ios_recv" => StillToSend # {})

C20_Witness ==
    /\ pc = "returned"
    /\ retErr = "nil"
    /\ Len(recvLog) = 4
    /\ spawned = 4
    /\ StillToSend = {}

====
